---- MODULE Spec2Model ----
(***************************************************************************)
(* w1-netlink-rs: the three-layer codec of src/src/proto                   *)
(*   command.rs    W1NetlinkCommand   (4-byte header + payload)            *)
(*   message.rs    W1NetlinkMessage   (12-byte header + body)              *)
(*   connector.rs  NlConnectorMessage (20-byte header + messages)          *)
(*   mod.rs        Serializable / Deserializable for Vec<T>                *)
(*                                                                         *)
(* Byte buffers are sequences of 0..255.  The header structs are           *)
(* #[repr(C)] and are read and written with safe_transmute, that is in the *)
(* byte order of the host; the model is of a little-endian host.           *)
(* A call ends in one of three ways: it returns Ok, it returns Err, or it  *)
(* panics (split_at past the end, copy_from_slice of unequal lengths,      *)
(* todo!(), unimplemented!()).  The identifiers drawn stay below 2^31, the  *)
(* integers of the model checker.                                          *)
(***************************************************************************)
EXTENDS Integers, Sequences, FiniteSets, TLC

\* pc      where the caller is: "idle", "encoded" (a serialize call returned),
\*         "vec_loop" (inside Vec<T>::deserialize), "done"
\* op      the layer called: "cmd", "msg" or "conn"
\* orig    the value given to serialize
\* enc     how serialize ended, buf the buffer it wrote
\* input   the transport message type and the bytes given to deserialize
\* out     how deserialize ended
\* cursor, cmds   the locals of Vec<T>::deserialize
VARIABLES pc, op, orig, enc, buf, input, out, cursor, cmds

vars == <<pc, op, orig, enc, buf, input, out, cursor, cmds>>

(***************************************************************************)
(* Bounds of the checked instance.                                         *)
(***************************************************************************)
MaxPayload == 1
MaxRecords == 2
MaxTrail == 2
MaxIds == 2
MaxItems == 4
MaxMessages == 2

(***************************************************************************)
(* Program constants.                                                      *)
(***************************************************************************)
CMD_HEADER_LEN == 4
MSG_HEADER_LEN == 12
CN_HEADER_LEN == 20
\* netlink_sys::constants::NETLINK_CONNECTOR, the protocol number of linux/netlink.h
NETLINK_CONNECTOR == 11
\* the message_type of tests::deserialize_search_response
NLMSG_DONE == 3
CONNECTOR_W1_IDX == 3
CONNECTOR_W1_VAL == 1
W1_CMD_MAX == 9
W1_LIST_MASTERS == 6
W1_MASTER_CMD == 4
W1_SLAVE_CMD == 5
\* `as u16` keeps the value modulo 2^16
U16 == 65536

(***************************************************************************)
(* Bytes and little-endian integers.                                       *)
(***************************************************************************)
RECURSIVE ToLe(_, _)
\* uN::to_le_bytes on w bytes
ToLe(n, w) == IF w = 0 THEN <<>> ELSE <<n % 256>> \o ToLe(n \div 256, w - 1)

RECURSIVE FromLe(_)
\* uN::from_le_bytes
FromLe(bytes) ==
    IF bytes = <<>> THEN 0
    ELSE bytes[1] + 256 * FromLe(Tail(bytes))

\* vec![0; n]
Zeros(n) == [i \in 1..n |-> 0]

\* &s[from..] with a 0-based start
From(s, from) == SubSeq(s, from + 1, Len(s))

\* &s[from..to] with 0-based bounds, to exclusive
Slice(s, from, to) == SubSeq(s, from + 1, to)

\* buffer[at..at+Len(src)].copy_from_slice(src), bounds already checked
Splice(buffer, at, src) ==
    [i \in 1..Len(buffer) |->
        IF i > at /\ i <= at + Len(src) THEN src[i - at] ELSE buffer[i]]

RECURSIVE SeqsUpTo(_, _)
\* every sequence over S of length 0..n
SeqsUpTo(S, n) ==
    IF n = 0 THEN {<<>>}
    ELSE LET shorter == SeqsUpTo(S, n - 1)
         IN  shorter \cup {Append(s, x) : s \in shorter, x \in S}

RECURSIVE Flatten(_)
Flatten(ss) == IF ss = <<>> THEN <<>> ELSE Head(ss) \o Flatten(Tail(ss))

(***************************************************************************)
(* Results of a call.                                                      *)
(***************************************************************************)
NoErr == [name |-> "-", exp |-> 0, act |-> 0]
NoVal == [t |-> "-"]

Ok(v, n) == [k |-> "ok", e |-> NoErr, v |-> v, n |-> n]
Err(name, exp, act) ==
    [k |-> "err", e |-> [name |-> name, exp |-> exp, act |-> act], v |-> NoVal, n |-> 0]
Panic(why) ==
    [k |-> "panic", e |-> [name |-> why, exp |-> 0, act |-> 0], v |-> NoVal, n |-> 0]

(***************************************************************************)
(* Command layer: src/src/proto/command.rs                                 *)
(***************************************************************************)
\* Option<Vec<u8>> is (some, pl); the variants without payload carry (FALSE, <<>>).
Cmd(t, some, pl) == [t |-> t, some |-> some, pl |-> pl]
Write(pl) == Cmd("Write", TRUE, pl)
ReadNone == Cmd("Read", FALSE, <<>>)
ReadSome(pl) == Cmd("Read", TRUE, pl)
Search == Cmd("Search", FALSE, <<>>)
AlarmSearch == Cmd("AlarmSearch", FALSE, <<>>)
Touch == Cmd("Touch", FALSE, <<>>)
Reset == Cmd("Reset", FALSE, <<>>)
ListSlaves == Cmd("ListSlaves", FALSE, <<>>)

\* impl TryFrom<u8> for W1CommandType: the opcodes 0..8 are known
W1CommandType_try_from(value) == value < W1_CMD_MAX

\* impl From<W1CommandType> for u8, after W1NetlinkCommand::cmd_type
W1CommandType_into(cmd) ==
    CASE cmd.t = "Read" -> 0
      [] cmd.t = "Write" -> 1
      [] cmd.t = "Search" -> 2
      [] cmd.t = "AlarmSearch" -> 3
      [] cmd.t = "Touch" -> 4
      [] cmd.t = "Reset" -> 5
      [] cmd.t = "ListSlaves" -> 8

\* Read: Some(len).filter(|l| *l > 0).map(|_| payload.to_vec())
ReadPayload(len, payload) == IF len > 0 THEN ReadSome(payload) ELSE ReadNone

\* Write: payload.to_vec()
WritePayload(len, payload) == Write(payload)

\* the usize returned beside the command
CommandConsumed(len) == len

\* W1NetlinkCommand::deserialize
W1NetlinkCommand_deserialize(payload) ==
    IF Len(payload) < CMD_HEADER_LEN THEN Panic("split_at")
    ELSE
      LET header == Slice(payload, 0, CMD_HEADER_LEN)
          rest == From(payload, CMD_HEADER_LEN)
          cmd == header[1]
          len == FromLe(Slice(header, 2, 4))
      IN  IF ~W1CommandType_try_from(cmd) THEN Err("Command:InvalidType", 0, cmd)
          ELSE CASE cmd = 0 -> Ok(ReadPayload(len, rest), CommandConsumed(len))
                 [] cmd = 1 -> Ok(WritePayload(len, rest), CommandConsumed(len))
                 [] cmd = 2 -> Ok(Search, CommandConsumed(len))
                 [] cmd = 3 -> Ok(AlarmSearch, CommandConsumed(len))
                 [] cmd = 4 -> Ok(Touch, CommandConsumed(len))
                 [] cmd = 5 -> Ok(Reset, CommandConsumed(len))
                 [] cmd \in {6, 7} -> Panic("unimplemented")
                 [] cmd = 8 -> Ok(ListSlaves, CommandConsumed(len))

\* W1NetlinkCommand::buffer_len: [k |-> "ok", n] or a panic (todo!() for ListSlaves)
W1NetlinkCommand_buffer_len(cmd) ==
    IF cmd.t = "ListSlaves" THEN [k |-> "panic", n |-> 0]
    ELSE [k |-> "ok", n |-> Len(cmd.pl) + CMD_HEADER_LEN]

\* W1NetlinkCommand::serialize into buffer: [k |-> "ok", buf] or a panic
W1NetlinkCommand_serialize(cmd, buffer) ==
    LET bl == W1NetlinkCommand_buffer_len(cmd)
    IN  IF bl.k = "panic" THEN [k |-> "panic", buf |-> buffer]
        ELSE
          LET len == (bl.n - CMD_HEADER_LEN) % U16
              raw == <<W1CommandType_into(cmd), 0>> \o ToLe(len, 2)
          IN  IF Len(buffer) < CMD_HEADER_LEN THEN [k |-> "panic", buf |-> buffer]
              ELSE
                LET b1 == Splice(buffer, 0, raw)
                IN  IF cmd.some
                      THEN IF Len(buffer) - CMD_HEADER_LEN # Len(cmd.pl)
                             THEN [k |-> "panic", buf |-> b1]
                             ELSE [k |-> "ok", buf |-> Splice(b1, CMD_HEADER_LEN, cmd.pl)]
                      ELSE [k |-> "ok", buf |-> b1]

(***************************************************************************)
(* impl Deserializable for Vec<T>: src/src/proto/mod.rs                    *)
(***************************************************************************)
\* the cursor after an item that reported `read` bytes
VecAdvance(cur, read) == cur + read

\* one pass of the body of `while cursor < len`, on payload[cursor..len]
Vec_deserialize_iter(payload, cur, items) ==
    LET r == W1NetlinkCommand_deserialize(Slice(payload, cur, Len(payload)))
    IN  IF r.k = "ok"
          THEN [k |-> "loop", cursor |-> VecAdvance(cur, r.n),
                items |-> Append(items, r.v), r |-> r]
          ELSE [k |-> r.k, cursor |-> cur, items |-> items, r |-> r]

\* The loop never returns: it pushes items until the allocator gives up.
Hang == [k |-> "hang", e |-> NoErr, v |-> NoVal, n |-> 0]

RECURSIVE Vec_deserialize(_, _, _)
\* Vec<T>::deserialize run to its end.  T::deserialize is a function of
\* payload[cursor..len] alone, so a pass that leaves the cursor where it was
\* is followed by the same pass for ever.
Vec_deserialize(payload, cur, items) ==
    IF ~(cur < Len(payload)) THEN Ok(items, cur)
    ELSE LET it == Vec_deserialize_iter(payload, cur, items)
         IN  IF it.k # "loop" THEN it.r
             ELSE IF it.cursor = cur THEN Hang
             ELSE Vec_deserialize(payload, it.cursor, it.items)

(***************************************************************************)
(* Message layer: src/src/proto/message.rs                                 *)
(***************************************************************************)
Msg(t, some, ids, target, list, kind) ==
    [t |-> t, some |-> some, ids |-> ids, target |-> target, cmds |-> list, kind |-> kind]
ListMastersNone == Msg("ListMasters", FALSE, <<>>, 0, <<>>, "-")
ListMastersSome(ids) == Msg("ListMasters", TRUE, ids, 0, <<>>, "-")
MasterCommand(target, list) == Msg("MasterCommand", FALSE, <<>>, target, list, "-")
SlaveCommand(target, list) == Msg("SlaveCommand", FALSE, <<>>, target, list, "-")
MasterEvent(kind, target) == Msg("MasterEvent", FALSE, <<>>, target, <<>>, kind)
SlaveEvent(kind, target) == Msg("SlaveEvent", FALSE, <<>>, target, <<>>, kind)

\* impl TryFrom<u8> for W1MessageType: the kinds 0..6 are known
W1MessageType_try_from(value) == value <= W1_LIST_MASTERS

\* the W1NetlinkMsg header read by transmute_one_pedantic, and the bytes after it
MsgHeader(payload) ==
    [type |-> payload[1],
     status |-> payload[2],
     len |-> FromLe(Slice(payload, 2, 4)),
     id |-> Slice(payload, 4, MSG_HEADER_LEN),
     rest |-> From(payload, MSG_HEADER_LEN)]

RECURSIVE ListMastersIds_chunks_exact(_)
\* ListMastersIds with payload.chunks_exact(4): the short last chunk is dropped
ListMastersIds_chunks_exact(rest) ==
    IF Len(rest) < 4 THEN Ok(<<>>, 0)
    ELSE LET more == ListMastersIds_chunks_exact(From(rest, 4))
         IN  Ok(<<FromLe(Slice(rest, 0, 4))>> \o more.v, 0)

RECURSIVE ListMastersIds(_)
\* for chunk in payload.chunks(4): a short chunk is InvalidPayloadLength
ListMastersIds(rest) ==
    IF rest = <<>> THEN Ok(<<>>, 0)
    ELSE IF Len(rest) < 4 THEN Err("InvalidPayloadLength", 0, 0)
    ELSE LET more == ListMastersIds(From(rest, 4))
         IN  IF more.k = "ok" THEN Ok(<<FromLe(Slice(rest, 0, 4))>> \o more.v, 0)
             ELSE more

\* the usize returned beside the message
MessageConsumed(len) == len + MSG_HEADER_LEN

\* the bytes handed to the command loop of MasterCmd / SlaveCmd
CommandBody(payload) == MsgHeader(payload).rest

\* W1NetlinkMessage::deserialize up to the command loop: a result, or
\* [k |-> "cmds"] when the kind is MasterCmd or SlaveCmd
W1NetlinkMessage_head(payload) ==
    IF Len(payload) < MSG_HEADER_LEN THEN Panic("split_at")
    ELSE
      LET h == MsgHeader(payload)
      IN  IF h.status > 0 THEN Panic("todo")
          ELSE IF ~W1MessageType_try_from(h.type)
            THEN Err("InvalidMessageType", 0, h.type)
          ELSE CASE h.type = 0 ->
                      Ok(SlaveEvent("Add", FromLe(h.id)), MessageConsumed(h.len))
                 [] h.type = 1 ->
                      Ok(SlaveEvent("Remove", FromLe(h.id)), MessageConsumed(h.len))
                 [] h.type = 2 ->
                      Ok(MasterEvent("Add", FromLe(Slice(h.id, 0, 4))), MessageConsumed(h.len))
                 [] h.type = 3 ->
                      Ok(MasterEvent("Remove", FromLe(Slice(h.id, 0, 4))), MessageConsumed(h.len))
                 [] h.type \in {W1_MASTER_CMD, W1_SLAVE_CMD} ->
                      [k |-> "cmds", e |-> NoErr, v |-> NoVal, n |-> 0]
                 [] h.type = W1_LIST_MASTERS ->
                      LET ids == ListMastersIds(h.rest)
                      IN  IF ids.k = "ok"
                            THEN Ok(ListMastersSome(ids.v), MessageConsumed(h.len))
                            ELSE ids

\* W1NetlinkMessage::deserialize after the command loop returned `list`
W1NetlinkMessage_finish(payload, list) ==
    LET h == MsgHeader(payload)
    IN  IF h.type = W1_MASTER_CMD
          THEN Ok(MasterCommand(FromLe(Slice(h.id, 0, 4)), list), MessageConsumed(h.len))
          ELSE Ok(SlaveCommand(FromLe(h.id), list), MessageConsumed(h.len))

\* W1NetlinkMessage::deserialize as one call
W1NetlinkMessage_deserialize(payload) ==
    LET hd == W1NetlinkMessage_head(payload)
    IN  IF hd.k # "cmds" THEN hd
        ELSE LET v == Vec_deserialize(CommandBody(payload), 0, <<>>)
             IN  IF v.k = "ok" THEN W1NetlinkMessage_finish(payload, v.v)
                 ELSE v

RECURSIVE SumBufferLen(_)
\* cmds.iter().map(Serializable::buffer_len).sum()
SumBufferLen(list) ==
    IF list = <<>> THEN [k |-> "ok", n |-> 0]
    ELSE LET a == W1NetlinkCommand_buffer_len(Head(list))
             b == SumBufferLen(Tail(list))
         IN  IF a.k = "panic" \/ b.k = "panic" THEN [k |-> "panic", n |-> 0]
             ELSE [k |-> "ok", n |-> a.n + b.n]

\* W1NetlinkMessage::buffer_len
W1NetlinkMessage_buffer_len(msg) ==
    LET inner ==
          CASE msg.t = "ListMasters" -> [k |-> "ok", n |-> Len(msg.ids) * 4]
            [] msg.t \in {"MasterCommand", "SlaveCommand"} -> SumBufferLen(msg.cmds)
            [] OTHER -> [k |-> "ok", n |-> 0]
    IN  IF inner.k = "panic" THEN inner
        ELSE [k |-> "ok", n |-> inner.n + MSG_HEADER_LEN]

\* the slice of pl the i-th command (0-based offset `done` bytes in) is written to
CommandSlot(pl, done, len) == [at |-> 0, buf |-> pl]

RECURSIVE SerializeCommands(_, _, _)
\* for cmd in cmds { cmd.serialize(&mut pl) }
SerializeCommands(list, pl, done) ==
    IF list = <<>> THEN [k |-> "ok", buf |-> pl]
    ELSE LET bl == W1NetlinkCommand_buffer_len(Head(list))
             slot == CommandSlot(pl, done, bl.n)
             r == W1NetlinkCommand_serialize(Head(list), slot.buf)
         IN  IF r.k = "panic" THEN [k |-> "panic", buf |-> pl]
             ELSE SerializeCommands(Tail(list), Splice(pl, slot.at, r.buf), done + bl.n)

\* the (msg_type, id, payload) match of W1NetlinkMessage::serialize
MessageParts(msg) ==
    CASE msg.t = "ListMasters" ->
           [k |-> "ok", type |-> W1_LIST_MASTERS, id |-> Zeros(8),
            pl |-> Flatten([i \in 1..Len(msg.ids) |-> ToLe(msg.ids[i], 4)])]
      [] msg.t = "MasterCommand" ->
           LET sum == SumBufferLen(msg.cmds)
           IN  IF sum.k = "panic" THEN [k |-> "panic"]
               ELSE LET w == SerializeCommands(msg.cmds, Zeros(sum.n), 0)
                    IN  IF w.k = "panic" THEN [k |-> "panic"]
                        ELSE [k |-> "ok", type |-> W1_MASTER_CMD,
                              id |-> ToLe(msg.target, 4) \o Zeros(4), pl |-> w.buf]
      [] OTHER -> [k |-> "panic"]

\* W1NetlinkMessage::serialize into buffer: [k |-> "ok", buf] or a panic
W1NetlinkMessage_serialize(msg, buffer) ==
    LET bl == W1NetlinkMessage_buffer_len(msg)
    IN  IF bl.k = "panic" THEN [k |-> "panic", buf |-> buffer]
        ELSE
          LET len == (bl.n - MSG_HEADER_LEN) % U16
              parts == MessageParts(msg)
          IN  IF parts.k = "panic" THEN [k |-> "panic", buf |-> buffer]
              ELSE
                LET raw == <<parts.type, 0>> \o ToLe(len, 2) \o parts.id
                IN  IF Len(buffer) < MSG_HEADER_LEN THEN [k |-> "panic", buf |-> buffer]
                    ELSE IF Len(buffer) - MSG_HEADER_LEN # Len(parts.pl)
                      THEN [k |-> "panic", buf |-> Splice(buffer, 0, raw)]
                    ELSE [k |-> "ok",
                          buf |-> Splice(Splice(buffer, 0, raw), MSG_HEADER_LEN, parts.pl)]

(***************************************************************************)
(* Envelope layer: src/src/proto/connector.rs                              *)
(***************************************************************************)
\* NlConnectorMessage::new(seq, payload)
NlConnectorMessage_new(seq, payload) ==
    [seq |-> seq, ack |-> 0, flags |-> 0, payload |-> payload]

\* the CnMsg header read by transmute_one_pedantic, and the bytes after it
CnHeader(payload) ==
    [idx |-> FromLe(Slice(payload, 0, 4)),
     val |-> FromLe(Slice(payload, 4, 8)),
     seq |-> FromLe(Slice(payload, 8, 12)),
     ack |-> FromLe(Slice(payload, 12, 16)),
     len |-> FromLe(Slice(payload, 16, 18)),
     flags |-> FromLe(Slice(payload, 18, 20)),
     payload_bytes |-> From(payload, CN_HEADER_LEN)]

\* what the len field is compared with: payload.len(), header included
SuppliedLength(payload) == Len(payload)

\* the Vec whose len() bounds the message loop: `payload`, rebound to Vec::new()
\* on the line before the loop
LoopBound(payload_bytes, items) == Len(items)

RECURSIVE ConnectorLoop(_, _, _)
\* while cursor < payload.len() { T::deserialize(&payload_bytes[cursor..]) ... }
ConnectorLoop(payload_bytes, cur, items) ==
    IF ~(cur < LoopBound(payload_bytes, items)) THEN Ok(items, cur)
    ELSE IF cur > Len(payload_bytes) THEN Panic("slice")
    ELSE LET r == W1NetlinkMessage_deserialize(From(payload_bytes, cur))
         IN  IF r.k # "ok" THEN r
             ELSE ConnectorLoop(payload_bytes, cur + r.n, Append(items, r.v))

\* the three tests after the header is read, in the order of the code
HeaderChecks(payload) ==
    LET h == CnHeader(payload)
    IN  IF h.len # SuppliedLength(payload) THEN Err("InvalidPayloadLength", 0, 0)
        ELSE IF h.idx # CONNECTOR_W1_IDX THEN Err("UnexpectedIdx", CONNECTOR_W1_IDX, h.idx)
        ELSE IF h.val # CONNECTOR_W1_VAL THEN Err("UnexpectedVal", CONNECTOR_W1_VAL, h.val)
        ELSE Ok(NoVal, 0)

\* the transport type test at the head of NlConnectorMessage::deserialize
IsConnectorType(message_type) == message_type = NETLINK_CONNECTOR

\* NlConnectorMessage::deserialize with the header split before the test of
\* the transport type
NlConnectorMessage_deserialize_split_first(message_type, payload) ==
    IF Len(payload) < CN_HEADER_LEN THEN Panic("split_at")
    ELSE IF ~IsConnectorType(message_type) THEN Err("InvalidMessageType", 0, 0)
    ELSE
      LET h == CnHeader(payload)
          chk == HeaderChecks(payload)
      IN  IF chk.k # "ok" THEN chk
          ELSE LET l == ConnectorLoop(h.payload_bytes, 0, <<>>)
               IN  IF l.k # "ok" THEN l
                   ELSE Ok([seq |-> h.seq, ack |-> h.ack, flags |-> h.flags,
                            payload |-> l.v], Len(payload))

\* NlConnectorMessage::<W1NetlinkMessage>::deserialize(header, payload)
NlConnectorMessage_deserialize(message_type, payload) ==
    IF ~IsConnectorType(message_type) THEN Err("InvalidMessageType", 0, 0)
    ELSE IF Len(payload) < CN_HEADER_LEN THEN Panic("split_at")
    ELSE
      LET h == CnHeader(payload)
          chk == HeaderChecks(payload)
      IN  IF chk.k # "ok" THEN chk
          ELSE LET l == ConnectorLoop(h.payload_bytes, 0, <<>>)
               IN  IF l.k # "ok" THEN l
                   ELSE Ok([seq |-> h.seq, ack |-> h.ack, flags |-> h.flags,
                            payload |-> l.v], Len(payload))

RECURSIVE SumMessageLen(_)
\* self.payload.iter().map(Serializable::buffer_len).sum()
SumMessageLen(list) ==
    IF list = <<>> THEN [k |-> "ok", n |-> 0]
    ELSE LET a == W1NetlinkMessage_buffer_len(Head(list))
             b == SumMessageLen(Tail(list))
         IN  IF a.k = "panic" \/ b.k = "panic" THEN [k |-> "panic", n |-> 0]
             ELSE [k |-> "ok", n |-> a.n + b.n]

\* NlConnectorMessage::buffer_len
NlConnectorMessage_buffer_len(env) ==
    LET inner == SumMessageLen(env.payload)
    IN  IF inner.k = "panic" THEN inner
        ELSE [k |-> "ok", n |-> inner.n + CN_HEADER_LEN]

\* `let mut cursor = 0;` before the loop over the messages
FirstMessageAt == 0

RECURSIVE SerializeMessages(_, _, _)
\* for item in &self.payload { item.serialize(&mut buffer[cursor..cursor + len]) }
SerializeMessages(list, buffer, cur) ==
    IF list = <<>> THEN [k |-> "ok", buf |-> buffer]
    ELSE LET bl == W1NetlinkMessage_buffer_len(Head(list))
         IN  IF bl.k = "panic" \/ cur + bl.n > Len(buffer)
               THEN [k |-> "panic", buf |-> buffer]
               ELSE LET r == W1NetlinkMessage_serialize(Head(list),
                                                       Slice(buffer, cur, cur + bl.n))
                    IN  IF r.k = "panic" THEN [k |-> "panic", buf |-> buffer]
                        ELSE SerializeMessages(Tail(list), Splice(buffer, cur, r.buf),
                                               cur + bl.n)

\* the value written to CnMsg.len
CnLenField(buffer) == (Len(buffer) - CN_HEADER_LEN) % U16

\* NlConnectorMessage::serialize into buffer: [k |-> "ok", buf] or a panic
NlConnectorMessage_serialize(env, buffer) ==
    IF Len(buffer) < CN_HEADER_LEN THEN [k |-> "panic", buf |-> buffer]
    ELSE
      LET raw == ToLe(CONNECTOR_W1_IDX, 4) \o ToLe(CONNECTOR_W1_VAL, 4)
                 \o ToLe(env.seq, 4) \o ToLe(env.ack, 4)
                 \o ToLe(CnLenField(buffer), 2) \o ToLe(env.flags, 2)
      IN  SerializeMessages(env.payload, Splice(buffer, 0, raw), FirstMessageAt)

(***************************************************************************)
(* The values and the byte strings the calls are made with.                *)
(***************************************************************************)
\* payload bytes: 0 is also the opcode of Read, 2 that of Search
PayloadBytes == {0, 2}
Payloads == SeqsUpTo(PayloadBytes, MaxPayload)
MasterIds == {1, 258}
SlaveIds == {1, 65539}

CommandValues ==
    {Write(pl) : pl \in Payloads} \cup {ReadSome(pl) : pl \in Payloads}
    \cup {ReadNone, Search, AlarmSearch, Touch, Reset, ListSlaves}

MessageValues ==
    {ListMastersNone} \cup {ListMastersSome(ids) : ids \in SeqsUpTo(MasterIds, MaxIds)}
    \cup {MasterCommand(t, list) : t \in MasterIds, list \in SeqsUpTo(CommandValues, MaxRecords)}
    \cup {SlaveCommand(t, <<Search>>) : t \in SlaveIds}
    \cup {MasterEvent(kd, t) : kd \in {"Add", "Remove"}, t \in MasterIds}
    \cup {SlaveEvent(kd, t) : kd \in {"Add", "Remove"}, t \in SlaveIds}

EnvelopeMessages ==
    {ListMastersNone, ListMastersSome(<<1, 2>>), MasterCommand(1, <<Search>>),
     MasterCommand(1, <<Search, Reset>>), MasterCommand(258, <<Write(<<2>>)>>),
     SlaveCommand(1, <<Search>>), MasterEvent("Add", 1)}

EnvelopeValues ==
    {NlConnectorMessage_new(seq, list) :
        seq \in {0, 258}, list \in SeqsUpTo(EnvelopeMessages, MaxMessages)}

\* a command record on the wire: opcode, reserved, len, then the bytes
CmdBytes(opcode, len, bytes) == <<opcode, 0>> \o ToLe(len, 2) \o bytes

\* the records of the six decodable opcodes, len = the payload's length
WellFormedRecords ==
    {CmdBytes(o, Len(pl), pl) : o \in {0, 1}, pl \in Payloads}
    \cup {CmdBytes(o, 0, <<>>) : o \in 2..5}

CommandWire ==
    SeqsUpTo(PayloadBytes, CMD_HEADER_LEN - 1)
    \cup {CmdBytes(o, n, bytes) :
            o \in 0..W1_CMD_MAX, n \in 0..MaxPayload,
            bytes \in SeqsUpTo(PayloadBytes, MaxPayload + MaxTrail)}

\* a message on the wire
MsgBytes(type, status, len, id, body) == <<type, status>> \o ToLe(len, 2) \o id \o body

CommandBodies == {Flatten(rs) : rs \in SeqsUpTo(WellFormedRecords, MaxRecords)}

BadBodies ==
    {CmdBytes(W1_CMD_MAX, 0, <<>>), CmdBytes(6, 0, <<>>), CmdBytes(8, 0, <<>>),
     CmdBytes(1, 4, CmdBytes(W1_CMD_MAX, 0, <<>>)), CmdBytes(1, 4, CmdBytes(7, 0, <<>>)),
     CmdBytes(1, 4, CmdBytes(2, 4, <<>>)), <<2, 0>>,
     CmdBytes(1, 1, <<2>>) \o CmdBytes(W1_CMD_MAX, 0, <<>>)}

IdChunks == {ToLe(1, 4), ToLe(2, 4), ToLe(258, 4)}
ListBodies ==
    {Flatten(cs) \o trail :
        cs \in SeqsUpTo(IdChunks, MaxIds), trail \in SeqsUpTo({0, 1}, 3)}

MessageWire ==
    {Zeros(n) : n \in 0..(MSG_HEADER_LEN - 1)}
    \cup {MsgBytes(t, 0, Len(b), ToLe(258, 8), b) :
            t \in {W1_MASTER_CMD, W1_SLAVE_CMD}, b \in CommandBodies \cup BadBodies}
    \cup {MsgBytes(W1_LIST_MASTERS, 0, l, Zeros(8), b) : l \in {0, 8}, b \in ListBodies}
    \cup {MsgBytes(t, st, l, ToLe(id, 8), b) :
            t \in 0..(W1_LIST_MASTERS + 1), st \in {0, 1}, l \in {0, 4},
            id \in SlaveIds, b \in {<<>>, CmdBytes(1, 4, <<1, 0, 0, 0>>)}}

\* an envelope on the wire
CnBytes(idx, val, seq, ack, len, flags, bytes) ==
    ToLe(idx, 4) \o ToLe(val, 4) \o ToLe(seq, 4) \o ToLe(ack, 4)
    \o ToLe(len, 2) \o ToLe(flags, 2) \o bytes

EnvelopeMessageWire ==
    {MsgBytes(W1_MASTER_CMD, 0, 4, ToLe(1, 8), CmdBytes(2, 0, <<>>)),
     MsgBytes(W1_LIST_MASTERS, 0, 8, Zeros(8), ToLe(1, 4) \o ToLe(2, 4)),
     MsgBytes(2, 0, 0, ToLe(1, 8), <<>>),
     MsgBytes(W1_LIST_MASTERS + 1, 0, 0, Zeros(8), <<>>),
     MsgBytes(W1_MASTER_CMD, 0, 4, ToLe(1, 8), CmdBytes(W1_CMD_MAX, 0, <<>>))}

EnvelopePayloads == {Flatten(ms) : ms \in SeqsUpTo(EnvelopeMessageWire, MaxMessages)}

\* the frame of tests::deserialize_search_response (message.rs)
SearchResponse ==
    <<3, 0, 0, 0, 1, 0, 0, 0, 0, 0, 0, 0, 1, 0,
      0, 0, 16, 0, 0, 0, 4, 0, 4, 0, 1, 0, 0, 0,
      0, 0, 0, 0, 2, 0, 0, 0>>

EnvelopeWire ==
    {Zeros(n) : n \in 0..(CN_HEADER_LEN - 1)}
    \cup {SearchResponse}
    \cup UNION {{CnBytes(idx, val, seq, seq, len, fl, p) :
                    idx \in {CONNECTOR_W1_IDX, 4}, val \in {CONNECTOR_W1_VAL, 0},
                    seq \in {0, 258}, fl \in {0, 1},
                    len \in {Len(p), Len(p) + CN_HEADER_LEN, 0}} :
                 p \in EnvelopePayloads}

TransportTypes == {NETLINK_CONNECTOR, NLMSG_DONE}

(***************************************************************************)
(* The calls.                                                              *)
(***************************************************************************)
NoCall == [k |-> "-", e |-> NoErr, v |-> NoVal, n |-> 0]
NoInput == [mt |-> 0, bytes |-> <<>>]

Init ==
    /\ pc = "idle"
    /\ op = "-"
    /\ orig = NoVal
    /\ enc = "-"
    /\ buf = <<>>
    /\ input = NoInput
    /\ out = NoCall
    /\ cursor = 0
    /\ cmds = <<>>

\* a serialize call returned r for value v of layer l
Encoded(l, v, r) ==
    /\ op' = l
    /\ orig' = v
    /\ enc' = r.k
    /\ buf' = r.buf
    /\ pc' = IF r.k = "ok" THEN "encoded" ELSE "done"
    /\ UNCHANGED <<input, out, cursor, cmds>>

\* the caller's vec![0; v.buffer_len()] followed by v.serialize(&mut buffer)
CommandSerialize ==
    /\ pc = "idle"
    /\ \E c \in CommandValues :
         LET bl == W1NetlinkCommand_buffer_len(c)
         IN  Encoded("cmd", c,
                     IF bl.k = "panic" THEN [k |-> "panic", buf |-> <<>>]
                     ELSE W1NetlinkCommand_serialize(c, Zeros(bl.n)))

MessageSerialize ==
    /\ pc = "idle"
    /\ \E m \in MessageValues :
         LET bl == W1NetlinkMessage_buffer_len(m)
         IN  Encoded("msg", m,
                     IF bl.k = "panic" THEN [k |-> "panic", buf |-> <<>>]
                     ELSE W1NetlinkMessage_serialize(m, Zeros(bl.n)))

ConnectorSerialize ==
    /\ pc = "idle"
    /\ \E v \in EnvelopeValues :
         LET bl == NlConnectorMessage_buffer_len(v)
         IN  Encoded("conn", v,
                     IF bl.k = "panic" THEN [k |-> "panic", buf |-> <<>>]
                     ELSE NlConnectorMessage_serialize(v, Zeros(bl.n)))

\* the bytes a deserialize call of layer l may be given: bytes from the wire,
\* or the buffer the serialize call of the same layer has just written
Given(l, wire) ==
    IF pc = "idle" THEN wire
    ELSE IF pc = "encoded" /\ op = l THEN {buf}
    ELSE {}

CommandDeserialize ==
    \E bytes \in Given("cmd", CommandWire) :
        /\ op' = "cmd"
        /\ input' = [mt |-> 0, bytes |-> bytes]
        /\ out' = W1NetlinkCommand_deserialize(bytes)
        /\ pc' = "done"
        /\ UNCHANGED <<orig, enc, buf, cursor, cmds>>

\* W1NetlinkMessage::deserialize up to the call of Vec<T>::deserialize
MessageDeserialize ==
    \E bytes \in Given("msg", MessageWire) :
        LET hd == W1NetlinkMessage_head(bytes)
        IN  /\ op' = "msg"
            /\ input' = [mt |-> 0, bytes |-> bytes]
            /\ IF hd.k = "cmds"
                 THEN /\ pc' = "vec_loop"
                      /\ out' = NoCall
                 ELSE /\ pc' = "done"
                      /\ out' = hd
            /\ cursor' = 0
            /\ cmds' = <<>>
            /\ UNCHANGED <<orig, enc, buf>>

\* one test of `while cursor < len` in Vec<T>::deserialize and, when it holds,
\* one pass of the body; when it fails, the return into W1NetlinkMessage::deserialize
VecLoop ==
    /\ pc = "vec_loop"
    /\ LET body == CommandBody(input.bytes)
       IN  IF cursor < Len(body)
             THEN /\ Len(cmds) < MaxItems
                  /\ LET it == Vec_deserialize_iter(body, cursor, cmds)
                     IN  IF it.k = "loop"
                           THEN /\ cursor' = it.cursor
                                /\ cmds' = it.items
                                /\ UNCHANGED <<pc, out>>
                           ELSE /\ pc' = "done"
                                /\ out' = it.r
                                /\ UNCHANGED <<cursor, cmds>>
             ELSE /\ pc' = "done"
                  /\ out' = W1NetlinkMessage_finish(input.bytes, cmds)
                  /\ UNCHANGED <<cursor, cmds>>
    /\ UNCHANGED <<op, orig, enc, buf, input>>

ConnectorDeserialize ==
    \E mt \in TransportTypes, bytes \in Given("conn", EnvelopeWire) :
        /\ op' = "conn"
        /\ input' = [mt |-> mt, bytes |-> bytes]
        /\ out' = NlConnectorMessage_deserialize(mt, bytes)
        /\ pc' = "done"
        /\ UNCHANGED <<orig, enc, buf, cursor, cmds>>

Next ==
    \/ CommandSerialize
    \/ MessageSerialize
    \/ ConnectorSerialize
    \/ CommandDeserialize
    \/ MessageDeserialize
    \/ VecLoop
    \/ ConnectorDeserialize

Spec == Init /\ [][Next]_vars

(***************************************************************************)
(* What the wire format of the three tables says a byte string holds,      *)
(* used to state the claims: a record is 4 + len bytes long.               *)
(***************************************************************************)
RECURSIVE RecordCommands(_)
\* the commands of those records: opcode, and the len bytes after the header
RecordCommands(body) ==
    IF Len(body) < CMD_HEADER_LEN THEN <<>>
    ELSE LET len == FromLe(Slice(body, 2, 4))
             pl == Slice(body, CMD_HEADER_LEN, CMD_HEADER_LEN + len)
             c == CASE body[1] = 0 -> IF len > 0 THEN ReadSome(pl) ELSE ReadNone
                    [] body[1] = 1 -> Write(pl)
                    [] body[1] = 2 -> Search
                    [] body[1] = 3 -> AlarmSearch
                    [] body[1] = 4 -> Touch
                    [] OTHER -> Reset
         IN  <<c>> \o RecordCommands(From(body, CMD_HEADER_LEN + len))

\* a deserialize call of layer l has ended
Returned(l) == pc = "done" /\ op = l /\ out.k # "-"

\* the call decodes the buffer a serialize call of the same layer wrote
IsRoundTrip == enc = "ok" /\ input.bytes = buf

\* the call is message decode of a MasterCmd/SlaveCmd message, status 0, whose
\* body is one or more well-formed records
DecodesRecords ==
    /\ op = "msg"
    /\ pc \in {"vec_loop", "done"}
    /\ Len(input.bytes) >= MSG_HEADER_LEN
    /\ input.bytes[1] \in {W1_MASTER_CMD, W1_SLAVE_CMD}
    /\ input.bytes[2] = 0
    /\ CommandBody(input.bytes) \in CommandBodies \ {<<>>}

(***************************************************************************)
(* The claims.                                                             *)
(***************************************************************************)
\* a value none of whose optional payloads is Some(empty) or None where the
\* other of the two has the same bytes on the wire
RECURSIVE NoEmptyOption(_)
NoEmptyOption(list) ==
    \/ list = <<>>
    \/ /\ Head(list).t = "Read" => (Head(list).some => Head(list).pl # <<>>)
       /\ NoEmptyOption(Tail(list))

Injective(l, v) ==
    CASE l = "cmd" -> NoEmptyOption(<<v>>)
      [] l = "msg" -> /\ v.t = "ListMasters" => v.some
                      /\ NoEmptyOption(v.cmds)
      [] OTHER -> \A i \in 1..Len(v.payload) :
                      /\ v.payload[i].t = "ListMasters" => v.payload[i].some
                      /\ NoEmptyOption(v.payload[i].cmds)

\* C1: round trip at every layer.  When a value has been serialized into a
\* buffer of buffer_len() bytes and deserialize has been called on those bytes
\* (the envelope with the connector transport type), the call returns Ok with a
\* value equal to the one serialized.  (Stated for the values whose optional
\* payloads are not empty; two values that differ only there have the same
\* bytes, and the statement fails without them.)
C1_RoundTrip ==
    (/\ pc = "done"
     /\ IsRoundTrip
     /\ Injective(op, orig)
     /\ op = "conn" => input.mt = NETLINK_CONNECTOR)
        => (out.k = "ok" /\ out.v = orig)

\* C2: sequence exhaustion.  Decoding a body of N >= 1 well-formed records
\* never collects more than N commands, and it returns the N commands of the
\* records in wire order with the cursor at the sum of the records' 4 + len.
C2_SequenceExhaustion ==
    DecodesRecords =>
        LET body == CommandBody(input.bytes)
        IN  /\ Len(cmds) <= Len(RecordCommands(body))
            /\ pc = "done" =>
                 /\ out.k = "ok"
                 /\ out.v.cmds = RecordCommands(body)
                 /\ cursor = Len(body)

\* C3: the decode loops terminate.  The item decoder sees payload[cursor..len]
\* and nothing else, so a pass that goes round again with the cursor where it
\* was is repeated for ever: the loop terminates on every input exactly when
\* every pass that goes round again has moved the cursor forward.
C3_LoopAdvances ==
    [][(pc = "vec_loop" /\ pc' = "vec_loop") => cursor' > cursor]_vars

\* the len field of the header at the front of a buffer of layer l
LenField(l, bytes) ==
    CASE l = "cmd" -> FromLe(Slice(bytes, 2, 4))
      [] l = "msg" -> FromLe(Slice(bytes, 2, 4))
      [] OTHER -> FromLe(Slice(bytes, 16, 18))

HeaderLen(l) ==
    CASE l = "cmd" -> CMD_HEADER_LEN
      [] l = "msg" -> MSG_HEADER_LEN
      [] OTHER -> CN_HEADER_LEN

\* C4: length invariant on encode.  In every buffer a serialize call has
\* written, the len field of the layer's header equals the number of bytes
\* that follow the header.
C4_LenField ==
    (enc = "ok" /\ pc = "encoded")
        => LenField(op, buf) = Len(buf) - HeaderLen(op)

\* envelope decode has returned on a frame of at least 20 bytes that came
\* with the connector transport type
DecodedFrame ==
    /\ Returned("conn")
    /\ enc = "-"
    /\ input.mt = NETLINK_CONNECTOR
    /\ Len(input.bytes) >= CN_HEADER_LEN

\* the frame's len field counts the bytes after the 20-byte header
WellFramed == LenField("conn", input.bytes) = Len(input.bytes) - CN_HEADER_LEN

WrongFamily ==
    \/ FromLe(Slice(input.bytes, 0, 4)) # CONNECTOR_W1_IDX
    \/ FromLe(Slice(input.bytes, 4, 8)) # CONNECTOR_W1_VAL

IsFamilyMismatch(r) ==
    /\ r.k = "err"
    /\ \/ r.e = [name |-> "UnexpectedIdx", exp |-> CONNECTOR_W1_IDX,
                 act |-> FromLe(Slice(input.bytes, 0, 4))]
       \/ r.e = [name |-> "UnexpectedVal", exp |-> CONNECTOR_W1_VAL,
                 act |-> FromLe(Slice(input.bytes, 4, 8))]

\* C5: family validation.  A frame whose family pair is not (3, 1) is refused
\* with UnexpectedIdx(3, actual) or UnexpectedVal(1, actual) and no other
\* error.  (Stated for the frames whose len field is right; the statement
\* fails without the others.)
C5_FamilyMismatch ==
    (DecodedFrame /\ WellFramed /\ WrongFamily) => IsFamilyMismatch(out)

\* C6: envelope length check.  A frame whose len field equals the number of
\* bytes after the 20-byte header, and whose family pair is right, is not
\* refused for its length; a frame whose len field differs from that number
\* is refused with InvalidPayloadLength.
C6_LengthCheck ==
    DecodedFrame =>
        IF WellFramed
          THEN ~WrongFamily => ~(out.k = "err" /\ out.e.name = "InvalidPayloadLength")
          ELSE out.k = "err" /\ out.e.name = "InvalidPayloadLength"

\* C7: the frame of tests::deserialize_search_response, delivered with
\* transport message type 3 (NLMSG_DONE), decodes to Ok.
C7_SearchResponse ==
    (Returned("conn") /\ input = [mt |-> NLMSG_DONE, bytes |-> SearchResponse])
        => out.k = "ok"

\* C8: short headers.  Decode of an input shorter than the layer's header (20,
\* 12, 4 bytes) returns the error InvalidLength; it does not panic.
C8_ShortHeader ==
    (/\ pc = "done"
     /\ out.k # "-"
     /\ Len(input.bytes) < HeaderLen(op)
     /\ op = "conn" => input.mt = NETLINK_CONNECTOR)
        => (out.k = "err" /\ out.e.name = "InvalidLength")

\* message decode has returned on a ListMasters message with status 0
DecodedListMasters ==
    /\ Returned("msg")
    /\ Len(input.bytes) >= MSG_HEADER_LEN
    /\ input.bytes[1] = W1_LIST_MASTERS
    /\ input.bytes[2] = 0

\* C9: ListMasters body decode.  With n the number of bytes after the 12-byte
\* header: when 4 divides n the result is ListMasters(Some(ids)) with n/4
\* identifiers, the i-th the little-endian value of body bytes 4i..4i+3; when
\* it does not, the result is the error InvalidPayloadLength and no value.
C9_ListMasters ==
    DecodedListMasters =>
        LET body == From(input.bytes, MSG_HEADER_LEN)
            n == Len(body)
        IN  IF n % 4 = 0
              THEN /\ out.k = "ok"
                   /\ out.v.t = "ListMasters"
                   /\ out.v.some
                   /\ Len(out.v.ids) = n \div 4
                   /\ \A i \in 1..(n \div 4) :
                        out.v.ids[i] = body[4 * i - 3] + 256 * body[4 * i - 2]
                                       + 65536 * body[4 * i - 1]
                                       + 16777216 * body[4 * i]
              ELSE /\ out.k = "err"
                   /\ out.e.name = "InvalidPayloadLength"
                   /\ out.v = NoVal

\* C9 happens: the body 01 00 00 00 02 00 00 00 has been decoded to [1, 2]
C9_Witness ==
    /\ DecodedListMasters
    /\ From(input.bytes, MSG_HEADER_LEN) = <<1, 0, 0, 0, 2, 0, 0, 0>>
    /\ out.k = "ok"
    /\ out.v.ids = <<1, 2>>

\* command decode has returned on a record of a decodable opcode whose len
\* bytes of payload are all there
DecodedRecord ==
    /\ Returned("cmd")
    /\ Len(input.bytes) >= CMD_HEADER_LEN
    /\ input.bytes[1] \in 0..5
    /\ Len(input.bytes) - CMD_HEADER_LEN >= LenField("cmd", input.bytes)

\* C10: single command decode.  Read and Write take exactly the first len
\* bytes after the header (Read with len 0 is Read(None)), the other opcodes
\* take none, and the bytes consumed are 4 + len, 4 for the other opcodes.
C10_SingleCommand ==
    DecodedRecord =>
        LET n == LenField("cmd", input.bytes)
            first == Slice(input.bytes, CMD_HEADER_LEN, CMD_HEADER_LEN + n)
            opcode == input.bytes[1]
        IN  /\ out.k = "ok"
            /\ out.v = CASE opcode = 0 -> IF n > 0 THEN ReadSome(first) ELSE ReadNone
                         [] opcode = 1 -> Write(first)
                         [] opcode = 2 -> Search
                         [] opcode = 3 -> AlarmSearch
                         [] opcode = 4 -> Touch
                         [] OTHER -> Reset
            /\ out.n = IF opcode \in {0, 1} THEN CMD_HEADER_LEN + n ELSE CMD_HEADER_LEN

\* message decode has ended on an input of at least 12 bytes
DecodedMessage ==
    /\ Returned("msg")
    /\ Len(input.bytes) >= MSG_HEADER_LEN

\* C11: nonzero status.  Message decode of an input of at least 12 bytes whose
\* status byte is not 0 returns an error value to its caller: it does not
\* panic, and it produces no message, commands or identifiers from the body.
C11_NonzeroStatus ==
    (DecodedMessage /\ input.bytes[2] > 0)
        => (out.k = "err" /\ out.v = NoVal)

\* command decode has ended on a record of opcode 6, 7 or 8
DecodedUnsupported ==
    /\ Returned("cmd")
    /\ Len(input.bytes) >= CMD_HEADER_LEN
    /\ input.bytes[1] \in 6..8

\* the call failed as not implemented: the error NotImplemented, or the panic
\* of unimplemented!()
IsNotImplemented(r) ==
    \/ r.k = "err" /\ r.e.name = "NotImplemented"
    \/ r.k = "panic" /\ r.e.name = "unimplemented"

\* C12: unsupported command kinds fail fast.  Decoding a record of opcode 6, 7
\* or 8 fails as not implemented and returns no command; encoding ListSlaves
\* returns no bytes; and in a body that starts with such a record no command
\* is ever collected.  (The panic of unimplemented!() is counted as that
\* failure; the statement fails even so.)
C12_Unsupported ==
    /\ DecodedUnsupported => (IsNotImplemented(out) /\ out.v = NoVal)
    /\ (op = "cmd" /\ orig = ListSlaves) => enc # "ok"
    /\ (/\ op = "msg"
        /\ pc \in {"vec_loop", "done"}
        /\ Len(input.bytes) >= MSG_HEADER_LEN + CMD_HEADER_LEN
        /\ input.bytes[1] \in {W1_MASTER_CMD, W1_SLAVE_CMD}
        /\ input.bytes[2] = 0
        /\ input.bytes[MSG_HEADER_LEN + 1] \in 6..8) => cmds = <<>>

\* the value of layer l holds no ListSlaves command
NoListSlaves(l, v) ==
    CASE l = "cmd" -> v # ListSlaves
      [] l = "msg" -> \A i \in 1..Len(v.cmds) : v.cmds[i] # ListSlaves
      [] OTHER -> \A i \in 1..Len(v.payload) :
                      \A j \in 1..Len(v.payload[i].cmds) :
                          v.payload[i].cmds[j] # ListSlaves

\* C13: encode is total.  For every value of the three layers, buffer_len()
\* followed by serialize into a buffer of that many bytes completes: no call
\* of serialize ends in a panic.  (Stated for the values that hold no
\* ListSlaves command, whose encoding C12 has fail; the statement fails
\* without them.)
C13_EncodeTotal ==
    (orig # NoVal /\ NoListSlaves(op, orig)) => enc = "ok"

RECURSIVE MessageCount(_)
\* the number of messages a byte string holds, a message being 12 + len bytes
MessageCount(bytes) ==
    IF Len(bytes) < MSG_HEADER_LEN THEN 0
    ELSE 1 + MessageCount(From(bytes, MSG_HEADER_LEN + LenField("msg", bytes)))

\* the messages of EnvelopeMessageWire that decode: a known kind, status 0,
\* known opcodes
WellFormedMessageWire ==
    {m \in EnvelopeMessageWire :
        /\ W1MessageType_try_from(m[1])
        /\ m[1] \in {W1_MASTER_CMD, W1_SLAVE_CMD}
             => W1CommandType_try_from(m[MSG_HEADER_LEN + 1])}

\* envelope decode has ended on a frame with the family pair (3, 1) whose
\* payload is one or more well-formed messages, one after the other
DecodedMessages ==
    /\ DecodedFrame
    /\ ~WrongFamily
    /\ From(input.bytes, CN_HEADER_LEN) \in
         {Flatten(ms) : ms \in SeqsUpTo(WellFormedMessageWire, MaxMessages)} \ {<<>>}

\* C15: envelope decode returns every message.  On a frame whose payload is
\* k >= 1 well-formed messages, envelope decode never returns Ok with an
\* envelope of fewer (or more) than k messages.
C15_EveryMessage ==
    (DecodedMessages /\ out.k = "ok")
        => Len(out.v.payload) = MessageCount(From(input.bytes, CN_HEADER_LEN))

\* the bytes message m encodes to, in a buffer of its buffer_len() bytes
MessageEncoding(m) ==
    W1NetlinkMessage_serialize(m, Zeros(W1NetlinkMessage_buffer_len(m).n)).buf

\* C16: envelope encode layout.  After NlConnectorMessage::serialize into a
\* buffer of buffer_len() bytes, bytes 0..19 hold the header (idx 3, val 1,
\* seq, ack, len, flags, little-endian) and the bytes from 20 on hold the
\* encodings of the messages one after the other, in order.
C16_EnvelopeLayout ==
    (op = "conn" /\ enc = "ok" /\ pc = "encoded") =>
        /\ Slice(buf, 0, CN_HEADER_LEN)
             = CnBytes(CONNECTOR_W1_IDX, CONNECTOR_W1_VAL, orig.seq, orig.ack,
                       Len(buf) - CN_HEADER_LEN, orig.flags, <<>>)
        /\ From(buf, CN_HEADER_LEN)
             = Flatten([i \in 1..Len(orig.payload) |-> MessageEncoding(orig.payload[i])])

\* the bytes command c encodes to, in a buffer of its buffer_len() bytes
CommandEncoding(c) ==
    W1NetlinkCommand_serialize(c, Zeros(W1NetlinkCommand_buffer_len(c).n)).buf

\* C17: message encode layout.  For MasterCommand{target, cmds} the bytes
\* written after the 12-byte header are the encodings of cmds one after the
\* other, in order, for any number of commands.
C17_MessageLayout ==
    (op = "msg" /\ enc = "ok" /\ pc = "encoded" /\ orig.t = "MasterCommand") =>
        From(buf, MSG_HEADER_LEN)
            = Flatten([i \in 1..Len(orig.cmds) |-> CommandEncoding(orig.cmds[i])])

\* C18: the message body is bounded by its own len.  Message decode takes the
\* first len bytes after the 12-byte header as the body and reports 12 + len
\* bytes consumed; the bytes after them are not decoded as part of the body;
\* a len larger than the bytes available is an error.  (Stated for the
\* ListMasters messages, whose body of len bytes is identifiers.)
C18_BodyBounded ==
    DecodedListMasters =>
        LET len == LenField("msg", input.bytes)
            rest == From(input.bytes, MSG_HEADER_LEN)
        IN  IF len > Len(rest) THEN out.k = "err"
            ELSE len % 4 = 0 =>
                   /\ out.k = "ok"
                   /\ out.v = ListMastersSome(ListMastersIds(Slice(rest, 0, len)).v)
                   /\ out.n = MSG_HEADER_LEN + len

\* C19: message header validation order.  The kind byte is mapped before the
\* status byte is interpreted: on every input of at least 12 bytes whose kind
\* byte is not one of 0..6, message decode returns InvalidMessageType,
\* whatever the status byte is.
C19_KindBeforeStatus ==
    (DecodedMessage /\ ~W1MessageType_try_from(input.bytes[1]))
        => (out.k = "err" /\ out.e.name = "InvalidMessageType")

RECURSIVE HasBadRecord(_)
\* one of the records of the body, a record being 4 + len bytes, has an
\* opcode that is not known
HasBadRecord(body) ==
    /\ Len(body) >= CMD_HEADER_LEN
    /\ \/ ~W1CommandType_try_from(body[1])
       \/ HasBadRecord(From(body, CMD_HEADER_LEN + LenField("cmd", body)))

RECURSIVE HasBadMessage(_)
\* one of the messages of the payload, a message being 12 + len bytes, has a
\* kind that is not known, or is a MasterCmd/SlaveCmd with such a record
HasBadMessage(bytes) ==
    /\ Len(bytes) >= MSG_HEADER_LEN
    /\ LET len == LenField("msg", bytes)
           body == SubSeq(bytes, MSG_HEADER_LEN + 1,
                          IF MSG_HEADER_LEN + len < Len(bytes)
                            THEN MSG_HEADER_LEN + len ELSE Len(bytes))
       IN  \/ ~W1MessageType_try_from(bytes[1])
           \/ bytes[1] \in {W1_MASTER_CMD, W1_SLAVE_CMD} /\ HasBadRecord(body)
           \/ HasBadMessage(From(bytes, MSG_HEADER_LEN + len))

\* C20: no partial results.  Message decode of a MasterCmd/SlaveCmd message
\* with a record of unknown opcode anywhere in its body returns the error of
\* that record, and envelope decode never returns Ok for a frame one of whose
\* messages has an unknown kind or holds such a record.
C20_NoPartialResults ==
    /\ (/\ DecodedMessage
        /\ input.bytes[1] \in {W1_MASTER_CMD, W1_SLAVE_CMD}
        /\ input.bytes[2] = 0
        /\ LenField("msg", input.bytes) = Len(input.bytes) - MSG_HEADER_LEN
        /\ HasBadRecord(CommandBody(input.bytes)))
          => (out.k = "err" /\ out.e.name = "Command:InvalidType")
    /\ (DecodedFrame /\ HasBadMessage(From(input.bytes, CN_HEADER_LEN)))
          => out.k # "ok"

\* the 4 bytes of a Read record of len 0, the 12 bytes of a ListMasters
\* message of len 0
EmptyReadBytes == CmdBytes(0, 0, <<>>)
EmptyListMastersBytes == MsgBytes(W1_LIST_MASTERS, 0, 0, Zeros(8), <<>>)

\* decode of layer l returned a value that holds Read(Some(empty)) or
\* ListMasters(None)
ProducesEmptyOption ==
    /\ pc = "done"
    /\ out.k = "ok"
    /\ CASE op = "cmd" -> out.v = ReadSome(<<>>)
         [] op = "msg" -> \/ out.v = ListMastersNone
                          \/ \E i \in 1..Len(out.v.cmds) : out.v.cmds[i] = ReadSome(<<>>)
         [] OTHER -> FALSE

\* C21: encoding is not injective on empty optional payloads.  Read(None) and
\* Read(Some(empty)) both serialize to 00 00 00 00, ListMasters(None) and
\* ListMasters(Some(empty)) both to 06 00 00 00 and 8 zero bytes; decode maps
\* the first to Read(None) and the second to ListMasters(Some(empty)); and
\* decode never produces Read(Some(empty)) or ListMasters(None).
C21_EmptyOptions ==
    /\ (op = "cmd" /\ enc = "ok" /\ orig \in {ReadNone, ReadSome(<<>>)})
          => buf = EmptyReadBytes
    /\ (op = "msg" /\ enc = "ok" /\ orig \in {ListMastersNone, ListMastersSome(<<>>)})
          => buf = EmptyListMastersBytes
    /\ (Returned("cmd") /\ input.bytes = EmptyReadBytes)
          => (out.k = "ok" /\ out.v = ReadNone)
    /\ (Returned("msg") /\ input.bytes = EmptyListMastersBytes)
          => (out.k = "ok" /\ out.v = ListMastersSome(<<>>))
    /\ ~ProducesEmptyOption

====
